---- MODULE Spec2Model ----
(***************************************************************************)
(* A model of the CSV data visualiser: the credential store of            *)
(* src/database.py and the coercion / classification / visualisation      *)
(* pipeline of src/app.py.                                                 *)
(*                                                                         *)
(* A table (pandas DataFrame) is a sequence of columns; a column is a      *)
(* record [name, dtype, cells]; a cell is a record [k, v] whose kind k is  *)
(*   "null"      NaN / None / NaT (whatever isnull() reports)              *)
(*   "num"       the number v                                              *)
(*   "date_str"  a text that parses as the timestamp of day v              *)
(*   "month_str" the text str(Period) of month v, e.g. "2024-01"           *)
(*   "nat_str"   the text "NaT" (str of a missing period)                  *)
(*   "word_str"  a text that does not parse as a date                      *)
(*   "ts"        the timestamp of day v                                    *)
(*   "period"    the monthly period v                                      *)
(*   "delta"     a timedelta (a storage type that is neither numeric,      *)
(*               textual nor datetime64)                                   *)
(***************************************************************************)
EXTENDS Integers, Sequences, FiniteSets, TLC

VARIABLES
    df,        \* the table in hand (main's df; the argument of a function call)
    pc,        \* position of the run
    columns,   \* the column names main's loop iterates (df.columns, taken once)
    idx,       \* index in columns of the next column of the loop
    tags,      \* the tags detect_data_type has returned so far
    shown,     \* per column of the loop, how create_visualization ended
    input,     \* history: the table as it was given
    coerced,   \* history: the table as the first handle_dataframe returned it
    calls,     \* number of applications of the function under study
    users,     \* the rows of the users table
    ret,       \* the last credential-store call and what it returned
    firstPw,   \* history: per username, the password of its successful add_user
    session,   \* st.session_state: a dictionary, kept from one run to the next
    page,      \* what the last run of the script rendered
    event      \* the widget event the last run of the script was started by

vars == <<df, pc, columns, idx, tags, shown, input, coerced, calls, users, ret, firstPw,
          session, page, event>>

pipelineVars == <<df, pc, columns, idx, tags, shown, input, coerced, calls>>
sessionVars == <<session, page, event>>

-----------------------------------------------------------------------------
(* Bounds *)

MaxRows == 2      \* rows of a table in the pipeline
MaxCols == 2      \* columns of a table in the pipeline
MaxLen == 4       \* rows of a column handed to the classifier alone
MaxCalls == 2     \* repeated applications of a pure function

-----------------------------------------------------------------------------
(* Cells and columns *)

Cell(k, v) == [k |-> k, v |-> v]
Null == Cell("null", 0)

MonthOf(d) == (d + 1) \div 2          \* days 1, 2 are in month 1, day 3 in month 2
MonthStart(m) == 2 * m - 1            \* the first day of month m

Column(name, dtype, cells) == [name |-> name, dtype |-> dtype, cells |-> cells]

SeqsUpTo(S, n) == UNION {[1..m -> S] : m \in 0..n}
SeqsOfLen(S, n) == [1..n -> S]

\* Series.isnull() of one cell
isnull(c) == c.k = "null"

\* len(column)
len(column) == Len(column.cells)

\* Series.nunique(): distinct non-null values
nunique(column) ==
    Cardinality({column.cells[r] : r \in {q \in 1..len(column) : ~isnull(column.cells[q])}})

-----------------------------------------------------------------------------
(* detect_data_type, src/app.py 334-363 *)

Tags == {"empty", "numeric", "categorical", "text", "datetime"}

\* the exception a zero divisor raises in nunique() / len(column)
ZeroDivisionError == "ZeroDivisionError"

\* a plausible slip: "all null" written so that it needs at least one row
isnull_all_nonempty(column) ==
    /\ len(column) > 0
    /\ \A r \in 1..len(column) : isnull(column.cells[r])

\* column.isnull().all(): True on a column of zero rows
isnull_all(column) == \A r \in 1..len(column) : isnull(column.cells[r])

\* pd.api.types.is_datetime64_any_dtype: datetime64 only, not Period
is_datetime64_any_dtype(column) == column.dtype = "datetime64"

\* pd.api.types.is_numeric_dtype
is_numeric_dtype(column) == column.dtype = "float64"

\* pd.api.types.is_string_dtype: the textual storage
is_string_dtype(column) == column.dtype = "object"

\* a plausible slip: >= for >
mostly_unique_ge(d, n) == 2 * d >= n

\* d / n > 0.5
mostly_unique(d, n) == 2 * d > n

\* a plausible slip: <= for <
few_unique_le(d, n) == 2 * d =< n

\* d / n < 0.5
few_unique(d, n) == 2 * d < n

\* a plausible slip: the storage-type tests placed before the all-null test
detect_data_type_dtype_first(column) ==
    IF is_datetime64_any_dtype(column) THEN "datetime"
    ELSE IF isnull_all(column) THEN "empty"
    ELSE IF is_numeric_dtype(column) THEN
        IF len(column) = 0 THEN ZeroDivisionError
        ELSE IF mostly_unique(nunique(column), len(column)) THEN "numeric"
        ELSE "categorical"
    ELSE IF is_string_dtype(column) THEN
        IF len(column) = 0 THEN ZeroDivisionError
        ELSE IF few_unique(nunique(column), len(column)) THEN "categorical"
        ELSE "text"
    ELSE "categorical"

detect_data_type(column) ==
    IF isnull_all(column) THEN "empty"
    ELSE IF is_datetime64_any_dtype(column) THEN "datetime"
    ELSE IF is_numeric_dtype(column) THEN
        IF len(column) = 0 THEN ZeroDivisionError
        ELSE IF mostly_unique(nunique(column), len(column)) THEN "numeric"
        ELSE "categorical"
    ELSE IF is_string_dtype(column) THEN
        IF len(column) = 0 THEN ZeroDivisionError
        ELSE IF few_unique(nunique(column), len(column)) THEN "categorical"
        ELSE "text"
    ELSE "categorical"

-----------------------------------------------------------------------------
(* The classifier applied to any column: storage type numeric, textual,    *)
(* temporal (datetime64, period) or other, 0..MaxLen rows, any nulls.      *)

DTypes == {"float64", "object", "datetime64", "period", "timedelta64"}

CellsOf(dtype) ==
    {Null} \cup
    CASE dtype = "float64"     -> {Cell("num", 1), Cell("num", 2)}
      [] dtype = "object"      -> {Cell("word_str", 1), Cell("date_str", 1)}
      [] dtype = "datetime64"  -> {Cell("ts", 1), Cell("ts", 3)}
      [] dtype = "period"      -> {Cell("period", 1), Cell("period", 2)}
      [] dtype = "timedelta64" -> {Cell("delta", 1), Cell("delta", 2)}

AnyColumns(maxLen) ==
    UNION {{Column("city", d, cs) : cs \in SeqsUpTo(CellsOf(d), maxLen)} : d \in DTypes}

NoUsers == {}
NoRet == [op |-> "none", username |-> "", password |-> "", result |-> FALSE,
          before |-> {}]
NoFirstPw == <<>>

\* st.session_state of a new session: no key
NoSession == [key \in {} |-> FALSE]
Event(kind, username, password, confirm) ==
    [kind |-> kind, username |-> username, password |-> password, confirm |-> confirm]
NoEvent == Event("rerun", "", "", "")

InitClassify ==
    /\ df \in {<<c>> : c \in AnyColumns(MaxLen)}
    /\ input = df
    /\ pc = "classify"
    /\ columns = <<>>
    /\ idx = 0
    /\ tags = <<>>
    /\ shown = <<>>
    /\ coerced = <<>>
    /\ calls = 0
    /\ users = NoUsers
    /\ ret = NoRet
    /\ firstPw = NoFirstPw
    /\ session = NoSession
    /\ page = "none"
    /\ event = NoEvent

\* one call detect_data_type(df[column]); the function assigns nothing to its
\* argument
Classify ==
    /\ pc = "classify"
    /\ calls < MaxCalls
    /\ tags' = Append(tags, detect_data_type(df[1]))
    /\ calls' = calls + 1
    /\ UNCHANGED <<df, pc, columns, idx, shown, input, coerced, users, ret, firstPw, session, page, event>>

NextClassify == Classify

SpecClassify == InitClassify /\ [][NextClassify]_vars

\* the column under classification, and its distinct and row counts
TheColumn == df[1]
AllNull == isnull_all(TheColumn)
Classified == pc = "classify" /\ calls > 0

\* C1: every call of detect_data_type, on any column (any storage type, any
\* row count including zero, any nulls), returns one of the five tags, never
\* the division error, repeated calls return the same tag, and the column is
\* left as it was given.
C1_Total ==
    pc = "classify" =>
        /\ \A n \in 1..Len(tags) : tags[n] \in Tags /\ tags[n] = tags[1]
        /\ Len(tags) = calls
        /\ df = input

C1_Witness ==
    /\ pc = "classify" /\ calls = 2
    /\ len(TheColumn) = 0
    /\ TheColumn.dtype = "float64"
    /\ tags = <<"empty", "empty">>

\* C2: an all-null column is tagged empty whatever its storage type.
C2_AllNullEmpty ==
    (Classified /\ AllNull) => \A n \in 1..Len(tags) : tags[n] = "empty"

C2_Witness ==
    /\ Classified /\ AllNull
    /\ TheColumn.dtype = "datetime64"
    /\ len(TheColumn) = 2
    /\ tags[1] = "empty"

\* C3: a numeric column that is not all null is tagged numeric iff
\* distinct/rows > 0.5 and categorical otherwise (so categorical at exactly
\* 0.5); one row gives numeric.
C3_Numeric ==
    (Classified /\ ~AllNull /\ TheColumn.dtype = "float64") =>
        /\ tags[1] \in {"numeric", "categorical"}
        /\ tags[1] = "numeric" <=> 2 * nunique(TheColumn) > len(TheColumn)
        /\ 2 * nunique(TheColumn) = len(TheColumn) => tags[1] = "categorical"
        /\ len(TheColumn) = 1 => tags[1] = "numeric"

C3_Witness ==
    /\ Classified /\ ~AllNull /\ TheColumn.dtype = "float64"
    /\ len(TheColumn) = 4 /\ nunique(TheColumn) = 2
    /\ tags[1] = "categorical"

-----------------------------------------------------------------------------
(* The credential store, src/database.py *)

Usernames == {"alice", "bob"}
Passwords == {"secret1", "secret2"}
Salts == {1, 2}

\* the digest of a salted password (an ideal hash: distinct inputs, distinct
\* digests)
Digest(salt, password) == <<salt, password>>

\* werkzeug generate_password_hash: a fresh salt and the salted digest; the
\* cleartext is not kept
generate_password_hash(password, salt) ==
    [salt |-> salt, digest |-> Digest(salt, password)]

\* werkzeug check_password_hash: re-hash with the stored salt and compare
check_password_hash(pwhash, password) ==
    pwhash.digest = Digest(pwhash.salt, password)

Row(username, pwhash) == [username |-> username, password |-> pwhash]

RowsOf(table, username) == {r \in table : r.username = username}

\* CREATE TABLE users (username TEXT PRIMARY KEY, password TEXT): an INSERT of
\* a username already in the table raises sqlite3.IntegrityError
IntegrityError(table, username) == RowsOf(table, username) # {}

\* a plausible slip: the table without its PRIMARY KEY, every INSERT succeeds
add_user_no_key(table, username, password, salt) ==
    [users  |-> table \cup {Row(username, generate_password_hash(password, salt))},
     result |-> TRUE]

\* add_user: the table after the call and the value returned
add_user(table, username, password, salt) ==
    IF IntegrityError(table, username)
    THEN [users |-> table, result |-> FALSE]
    ELSE [users  |-> table \cup {Row(username, generate_password_hash(password, salt))},
          result |-> TRUE]

\* a plausible slip: a found row is taken for a match
verify_user_row_found(table, username, password) ==
    RowsOf(table, username) # {}

\* verify_user: SELECT password WHERE username = ?, fetchone(), compare
verify_user(table, username, password) ==
    IF RowsOf(table, username) # {}
    THEN check_password_hash((CHOOSE r \in RowsOf(table, username) : TRUE).password,
                             password)
    ELSE FALSE

InitDb ==
    /\ users = NoUsers
    /\ ret = NoRet
    /\ firstPw = NoFirstPw
    /\ session = NoSession
    /\ page = "none"
    /\ event = NoEvent
    /\ df = <<>>
    /\ input = <<>>
    /\ pc = "db"
    /\ columns = <<>>
    /\ idx = 0
    /\ tags = <<>>
    /\ shown = <<>>
    /\ coerced = <<>>
    /\ calls = 0

AddUser ==
    \E username \in Usernames, password \in Passwords, salt \in Salts :
        LET r == add_user(users, username, password, salt) IN
        /\ pc = "db"
        /\ users' = r.users
        /\ ret' = [op |-> "add_user", username |-> username, password |-> password,
                   result |-> r.result, before |-> users]
        /\ firstPw' = IF r.result /\ username \notin DOMAIN firstPw
                      THEN firstPw @@ (username :> password)
                      ELSE firstPw
        /\ UNCHANGED pipelineVars
        /\ UNCHANGED sessionVars

VerifyUser ==
    \E username \in Usernames, password \in Passwords :
        /\ pc = "db"
        /\ ret' = [op |-> "verify_user", username |-> username, password |-> password,
                   result |-> verify_user(users, username, password), before |-> users]
        /\ UNCHANGED <<users, firstPw>>
        /\ UNCHANGED pipelineVars
        /\ UNCHANGED sessionVars

NextDb == AddUser \/ VerifyUser

SpecDb == InitDb /\ [][NextDb]_vars

Stored(table, username) == RowsOf(table, username) # {}

\* C8: add_user returns true and inserts exactly one record for an unstored
\* name; it returns false and leaves the store as it was for a stored name;
\* so the store holds at most one record per username, the one of the first
\* successful add (its password is the one that add was given).
C8_AddUser ==
    /\ ret.op = "add_user" =>
        /\ ret.result <=> ~Stored(ret.before, ret.username)
        /\ ret.result =>
            /\ ret.before \subseteq users
            /\ Cardinality(users \ ret.before) = 1
            /\ \A r \in users \ ret.before : r.username = ret.username
        /\ ~ret.result => users = ret.before
    /\ \A username \in Usernames :
        /\ Cardinality(RowsOf(users, username)) =< 1
        /\ Stored(users, username) <=> username \in DOMAIN firstPw
        /\ \A r \in RowsOf(users, username) :
            r.password.digest = Digest(r.password.salt, firstPw[username])

C8_Witness ==
    /\ ret.op = "add_user" /\ ~ret.result
    /\ ret.username = "alice" /\ ret.password = "secret2"
    /\ firstPw["alice"] = "secret1"
    /\ Cardinality(users) = 2

\* C9: verify_user returns true iff the name is stored and the password is the
\* one its successful add_user was given; it never changes the store.
C9_VerifyUser ==
    ret.op = "verify_user" =>
        /\ ret.result <=> /\ ret.username \in DOMAIN firstPw
                          /\ firstPw[ret.username] = ret.password
        /\ users = ret.before

C9_Witness ==
    /\ ret.op = "verify_user" /\ ~ret.result
    /\ ret.username = "alice" /\ ret.password = "secret2"
    /\ "alice" \in DOMAIN firstPw /\ firstPw["alice"] = "secret1"

-----------------------------------------------------------------------------
(* Date coercion, src/app.py 138-159 *)

\* the column names of the model: "month" contains 'month', "order_date"
\* contains 'date', "city" contains none of 'month', 'date', 'time'
ColumnNames == <<"month", "order_date", "city">>

contains_month(name) == name \in {"month"}
contains_date_or_time(name) == name \in {"order_date", "temp_date"}

Parses(c) == c.k \in {"null", "date_str", "month_str", "nat_str", "ts", "num"}

\* the timestamp one cell parses to; what does not parse becomes NaT under
\* errors='coerce'
ParseCell(c) ==
    CASE c.k = "date_str"  -> Cell("ts", c.v)
      [] c.k = "month_str" -> Cell("ts", MonthStart(c.v))
      [] c.k = "ts"        -> c
      [] c.k = "num"       -> Cell("ts", c.v)
      [] OTHER             -> Null

AllNaT(column) ==
    Column(column.name, "datetime64", [r \in 1..len(column) |-> Null])

\* pd.to_datetime(column, errors=...): [raised, column]. A datetime64 column is
\* returned as it is; PeriodDtype (and timedelta64) data is refused: all NaT
\* under 'coerce', a TypeError under 'raise'; other cells are parsed one by one.
to_datetime(column, errors) ==
    IF column.dtype = "datetime64" THEN [raised |-> FALSE, column |-> column]
    ELSE IF column.dtype \in {"period", "timedelta64"} THEN
        IF errors = "coerce"
        THEN [raised |-> FALSE, column |-> AllNaT(column)]
        ELSE [raised |-> TRUE, column |-> column]
    ELSE IF errors = "raise" /\ \E r \in 1..len(column) : ~Parses(column.cells[r])
        THEN [raised |-> TRUE, column |-> column]
    ELSE [raised |-> FALSE,
          column |-> Column(column.name, "datetime64",
                            [r \in 1..len(column) |-> ParseCell(column.cells[r])])]

\* Series.dt.to_period('M') of a datetime64 column
to_period_M(column) ==
    Column(column.name, "period",
           [r \in 1..len(column) |->
               IF isnull(column.cells[r]) THEN Null
               ELSE Cell("period", MonthOf(column.cells[r].v))])

\* Series.astype(str) of a period column: "2024-01", and "NaT" for a missing one
astype_str(column) ==
    Column(column.name, "object",
           [r \in 1..len(column) |->
               IF isnull(column.cells[r]) THEN Cell("nat_str", 0)
               ELSE Cell("month_str", column.cells[r].v)])

\* the body of handle_dataframe's loop for one column
handle_column(column) ==
    IF is_numeric_dtype(column) THEN column
    ELSE IF contains_month(column.name) \/ contains_date_or_time(column.name) THEN
        LET t == to_datetime(column, "coerce") IN
        IF t.raised THEN column
        ELSE IF contains_month(column.name) THEN to_period_M(t.column)
        ELSE t.column
    ELSE column

\* handle_dataframe: a copy of the table with every column handled
handle_dataframe(table) == [c \in 1..Len(table) |-> handle_column(table[c])]

-----------------------------------------------------------------------------
(* Tables *)

\* the increasing selections of at most n names from ColumnNames
NameSeqs(n) ==
    {ns \in SeqsUpTo(1..Len(ColumnNames), n) :
        \A a, b \in 1..Len(ns) : a < b => ns[a] < ns[b]}

\* what pd.read_csv gives: numeric and textual columns, no temporal ones; the
\* columns of a file of a header alone are textual
CsvDTypes(rows) == IF rows = 0 THEN {"object"} ELSE {"float64", "object"}
CsvCellsOf(dtype) ==
    {Null} \cup
    CASE dtype = "float64" -> {Cell("num", 1)}
      [] dtype = "object"  -> {Cell("date_str", 1), Cell("word_str", 1)}

\* the columns of rows rows a table may hold, without their names; origin is
\* "csv" for the columns of an uploaded file
Bodies(rows, dtypes, origin) ==
    UNION {{[dtype |-> d, cells |-> cs] :
                cs \in SeqsOfLen(IF origin = "csv" THEN CsvCellsOf(d) ELSE CellsOf(d), rows)} :
            d \in dtypes}

\* tables with the columns named by ns, rows rows, the storage types dtypes
TablesOf(ns, rows, dtypes, origin) ==
    {[c \in 1..Len(ns) |-> Column(ColumnNames[ns[c]], body[c].dtype, body[c].cells)] :
        body \in [1..Len(ns) -> Bodies(rows, dtypes, origin)]}

\* the tables handle_dataframe may be given or give: numeric, textual, temporal
FrameDTypes == {"float64", "object", "datetime64", "period"}

-----------------------------------------------------------------------------
(* create_visualization, src/app.py 161-332 *)

names(table) == [c \in 1..Len(table) |-> table[c].name]

has_column(table, name) == \E c \in 1..Len(table) : table[c].name = name

\* df[name]
column_of(table, name) == table[CHOOSE c \in 1..Len(table) : table[c].name = name]

\* df[name] = column: replaces the column of that name, or adds it at the end
set_column(table, name, column) ==
    LET named == Column(name, column.dtype, column.cells) IN
    IF has_column(table, name)
    THEN [c \in 1..Len(table) |-> IF table[c].name = name THEN named ELSE table[c]]
    ELSE Append(table, named)

\* what may go wrong in the rendering calls of one create_visualization call:
\* nothing, the statistics row (181-187) raises, or the chart of the tag's
\* branch raises
Faults == {"none", "stats", "chart"}

\* a plausible slip: create_visualization without its outer try/except, so
\* that what goes wrong reaches the caller
RECURSIVE create_visualization_unguarded(_, _, _, _)
create_visualization_unguarded(table, column_name, data_type, fault) ==
    LET col == column_of(table, column_name) IN
    IF len(col) = 0
    THEN [df |-> table, outcome |-> "raised", fallbacks |-> 0]
    ELSE
        LET is_period == col.cells[1].k = "period"
            df1 == IF is_period THEN set_column(table, column_name, astype_str(col))
                   ELSE table
            data_type1 == IF is_period THEN "categorical" ELSE data_type
            col1 == column_of(df1, column_name)
        IN
        IF fault = "stats" THEN [df |-> df1, outcome |-> "raised", fallbacks |-> 0]
        ELSE IF data_type1 = "datetime" THEN
            LET t == to_datetime(col1, "raise") IN
            IF t.raised \/ fault = "chart"
            THEN LET df2 == IF t.raised THEN df1
                            ELSE set_column(df1, "temp_date", t.column)
                     fb == create_visualization_unguarded(df2, column_name,
                                                          "categorical", fault)
                 IN [df |-> fb.df, outcome |-> "raised", fallbacks |-> fb.fallbacks + 1]
            ELSE [df |-> set_column(df1, "temp_date", t.column), outcome |-> "ok",
                  fallbacks |-> 0]
        ELSE IF data_type1 \in {"categorical", "text"}
                /\ (fault = "chart" \/ isnull_all(col1))
            THEN [df |-> df1, outcome |-> "raised", fallbacks |-> 0]
        ELSE IF data_type1 = "numeric" /\ fault = "chart"
            THEN [df |-> df1, outcome |-> "raised", fallbacks |-> 0]
        ELSE [df |-> df1, outcome |-> "ok", fallbacks |-> 0]

\* create_visualization: the table after the call (df is main's own table,
\* not a copy), whether the outer except (331-332) reported an error for the
\* column, and how many nested fallback calls (307) the call made. Nothing
\* leaves the function as an exception: outcome is never "raised".
RECURSIVE create_visualization(_, _, _, _)
create_visualization(table, column_name, data_type, fault) ==
    LET col == column_of(table, column_name) IN
    IF len(col) = 0
    THEN \* df[column_name].iloc[0] raises IndexError
         [df |-> table, outcome |-> "error", fallbacks |-> 0]
    ELSE
        LET is_period == col.cells[1].k = "period"
            \* 176-178: a Period column is replaced by its text
            df1 == IF is_period THEN set_column(table, column_name, astype_str(col))
                   ELSE table
            data_type1 == IF is_period THEN "categorical" ELSE data_type
            col1 == column_of(df1, column_name)
        IN
        IF fault = "stats" THEN [df |-> df1, outcome |-> "error", fallbacks |-> 0]
        ELSE IF data_type1 = "datetime" THEN
            LET t == to_datetime(col1, "raise") IN
            IF t.raised \/ fault = "chart"
            THEN \* 303-307: the inner except falls back to the categorical
                 \* rendering (df['temp_date'] is assigned when the chart, not
                 \* line 259, raised); back in this frame the insights read
                 \* value_counts, which this frame never assigned
                 LET df2 == IF t.raised THEN df1
                            ELSE set_column(df1, "temp_date", t.column)
                     fb == create_visualization(df2, column_name, "categorical", fault)
                 IN [df |-> fb.df, outcome |-> "error", fallbacks |-> fb.fallbacks + 1]
            ELSE \* 259: df['temp_date'] = pd.to_datetime(df[column_name])
                 [df |-> set_column(df1, "temp_date", t.column), outcome |-> "ok",
                  fallbacks |-> 0]
        ELSE IF data_type1 \in {"categorical", "text"}
                /\ (fault = "chart" \/ isnull_all(col1))
            THEN \* the chart raises, or mode().iloc[0] of a column without
                 \* values raises IndexError
                 [df |-> df1, outcome |-> "error", fallbacks |-> 0]
        ELSE IF data_type1 = "numeric" /\ fault = "chart"
            THEN [df |-> df1, outcome |-> "error", fallbacks |-> 0]
        ELSE [df |-> df1, outcome |-> "ok", fallbacks |-> 0]

-----------------------------------------------------------------------------
(* main, src/app.py 396-453: one request with an uploaded file *)

Init ==
    /\ \E ns \in NameSeqs(MaxCols) \ {<<>>}, rows \in 0..MaxRows :
          df \in TablesOf(ns, rows, CsvDTypes(rows), "csv")
    /\ input = df
    /\ pc = "read"
    /\ columns = <<>>
    /\ idx = 0
    /\ tags = <<>>
    /\ shown = <<>>
    /\ coerced = <<>>
    /\ calls = 0
    /\ users = NoUsers
    /\ ret = NoRet
    /\ firstPw = NoFirstPw
    /\ session = NoSession
    /\ page = "none"
    /\ event = NoEvent

\* 402: df = handle_dataframe(df); 424: the loop takes df.columns
HandleDataframe ==
    /\ pc = "read"
    /\ df' = handle_dataframe(df)
    /\ coerced' = df'
    /\ columns' = names(df')
    /\ idx' = 1
    /\ pc' = "columns"
    /\ UNCHANGED <<tags, shown, input, calls, users, ret, firstPw, session, page, event>>

\* 424-429: one turn of the loop over the columns; an exception leaving
\* create_visualization would reach main's except (451-453), which ends the
\* page with an error banner
AnalyzeColumn ==
    \E fault \in Faults :
        /\ pc = "columns"
        /\ idx =< Len(columns)
        /\ LET data_type == detect_data_type(column_of(df, columns[idx]))
               viz == create_visualization(df, columns[idx], data_type, fault)
           IN /\ tags' = Append(tags, data_type)
              /\ df' = viz.df
              /\ IF viz.outcome = "raised"
                 THEN pc' = "aborted" /\ shown' = shown
                 ELSE /\ pc' = pc
                      /\ shown' = Append(shown, [outcome |-> viz.outcome,
                                                 fallbacks |-> viz.fallbacks])
        /\ idx' = idx + 1
        /\ UNCHANGED <<columns, input, coerced, calls, users, ret, firstPw, session, page, event>>

\* 431-445: the Relationships tab reads df
Relationships ==
    /\ pc = "columns"
    /\ idx > Len(columns)
    /\ pc' = "relationships"
    /\ UNCHANGED <<df, columns, idx, tags, shown, input, coerced, calls, users, ret, firstPw, session, page, event>>

\* 447-449: the Summary Statistics tab reads df
SummaryStatistics ==
    /\ pc = "relationships"
    /\ pc' = "done"
    /\ UNCHANGED <<df, columns, idx, tags, shown, input, coerced, calls, users, ret, firstPw, session, page, event>>

Next == HandleDataframe \/ AnalyzeColumn \/ Relationships \/ SummaryStatistics

Spec == Init /\ [][Next]_vars

-----------------------------------------------------------------------------
(* handle_dataframe applied to any table, and again to its own result *)

InitCoerce ==
    /\ \E ns \in NameSeqs(MaxCols) \ {<<>>}, rows \in 0..MaxRows :
          df \in TablesOf(ns, rows, FrameDTypes, "any")
    /\ input = df
    /\ pc = "coerce"
    /\ columns = <<>>
    /\ idx = 0
    /\ tags = <<>>
    /\ shown = <<>>
    /\ coerced = <<>>
    /\ calls = 0
    /\ users = NoUsers
    /\ ret = NoRet
    /\ firstPw = NoFirstPw
    /\ session = NoSession
    /\ page = "none"
    /\ event = NoEvent

Coerce ==
    /\ pc = "coerce"
    /\ calls < MaxCalls
    /\ df' = handle_dataframe(df)
    /\ coerced' = IF calls = 0 THEN df' ELSE coerced
    /\ calls' = calls + 1
    /\ UNCHANGED <<pc, columns, idx, tags, shown, input, users, ret, firstPw, session, page, event>>

NextCoerce == Coerce

SpecCoerce == InitCoerce /\ [][NextCoerce]_vars

-----------------------------------------------------------------------------
(* The session: main 365-391 and login_page 83-136, one run of the script   *)
(* per widget event                                                         *)

\* what the forms may be given: the names and passwords of the store, and a
\* password shorter than the register form accepts
FormUsernames == Usernames
FormPasswords == Passwords \cup {"abc"}

\* len(new_password)
PasswordLen(password) == IF password = "abc" THEN 3 ELSE 7

\* 130: len(new_password) < 6
MinPasswordLen == 6

\* st.session_state[key] = value
Put(state, key, value) ==
    [k \in DOMAIN state \cup {key} |-> IF k = key THEN value ELSE state[k]]

\* what a run leaves: the session state, the users table, the page it
\* rendered, and whether it ended in st.rerun()
Ran(state, table, rendered, rerun) ==
    [session |-> state, users |-> table, page |-> rendered, rerun |-> rerun]

\* a plausible slip: the login form signs in whoever submits it
login_page_unverified(state, table, ev, salt) ==
    IF ev.kind = "login"
    THEN Ran(Put(Put(state, "logged_in", TRUE), "username", ev.username),
             table, "interrupted", TRUE)
    ELSE Ran(state, table, "login", FALSE)

\* login_page: the two forms; ev is the form submitted in this run, if any
login_page(state, table, ev, salt) ==
    IF ev.kind = "login" THEN
        IF verify_user(table, ev.username, ev.password)
        THEN \* 108-111
             Ran(Put(Put(state, "logged_in", TRUE), "username", ev.username),
                 table, "interrupted", TRUE)
        ELSE Ran(state, table, "login", FALSE)
    ELSE IF ev.kind = "register" THEN
        IF ev.password # ev.confirm THEN Ran(state, table, "login", FALSE)
        ELSE IF PasswordLen(ev.password) < MinPasswordLen
            THEN Ran(state, table, "login", FALSE)
        ELSE Ran(state, add_user(table, ev.username, ev.password, salt).users,
                 "login", FALSE)
    ELSE Ran(state, table, "login", FALSE)

\* main up to the dashboard: the sidebar (dark mode, Logout), the login gate
main(state, table, ev, salt) ==
    LET s1 == IF "dark_mode" \in DOMAIN state THEN state
              ELSE Put(state, "dark_mode", FALSE)
        s2 == Put(s1, "dark_mode",
                  IF ev.kind = "toggle" THEN ~s1["dark_mode"] ELSE s1["dark_mode"])
    IN
    IF ev.kind = "logout"
    THEN \* 375-377
         Ran(Put(s2, "logged_in", FALSE), table, "interrupted", TRUE)
    ELSE
        LET s3 == IF "logged_in" \in DOMAIN s2 THEN s2
                  ELSE Put(s2, "logged_in", FALSE)
        IN
        IF ~s3["logged_in"] THEN login_page(s3, table, ev, salt)
        ELSE IF "username" \in DOMAIN s3 THEN Ran(s3, table, "dashboard", FALSE)
        ELSE \* 391: KeyError
             Ran(s3, table, "exception", FALSE)

InitSession ==
    /\ session = NoSession
    /\ page = "none"
    /\ event = NoEvent
    /\ pc = "rerun"
    /\ users = NoUsers
    /\ ret = NoRet
    /\ firstPw = NoFirstPw
    /\ df = <<>>
    /\ input = <<>>
    /\ columns = <<>>
    /\ idx = 0
    /\ tags = <<>>
    /\ shown = <<>>
    /\ coerced = <<>>
    /\ calls = 0

\* one run of the script, started by ev
Run(ev, salt) ==
    LET r == main(session, users, ev, salt) IN
    /\ session' = r.session
    /\ users' = r.users
    /\ page' = r.page
    /\ event' = ev
    /\ pc' = IF r.rerun THEN "rerun" ELSE "idle"
    /\ firstPw' = IF r.users # users
                  THEN firstPw @@ (ev.username :> ev.password)
                  ELSE firstPw
    /\ UNCHANGED <<df, columns, idx, tags, shown, input, coerced, calls, ret>>

\* the first run, the run st.rerun() asks for, or a rerun without any event
PlainRun ==
    /\ pc \in {"rerun", "idle"}
    /\ Run(NoEvent, 1)

ToggleDarkMode ==
    /\ pc = "idle"
    /\ Run(Event("toggle", "", "", ""), 1)

LogoutClick ==
    /\ pc = "idle"
    /\ Run(Event("logout", "", "", ""), 1)

LoginSubmit ==
    \E username \in FormUsernames, password \in FormPasswords :
        /\ pc = "idle"
        /\ page = "login"
        /\ Run(Event("login", username, password, ""), 1)

RegisterSubmit ==
    \E username \in FormUsernames, password \in FormPasswords,
       confirm \in FormPasswords, salt \in Salts :
        /\ pc = "idle"
        /\ page = "login"
        /\ Run(Event("register", username, password, confirm), salt)

NextSession ==
    PlainRun \/ ToggleDarkMode \/ LogoutClick \/ LoginSubmit \/ RegisterSubmit

SpecSession == InitSession /\ [][NextSession]_vars

LoggedIn == "logged_in" \in DOMAIN session /\ session["logged_in"]

\* C12: the dashboard is rendered only by a run in which logged_in is true;
\* logged_in turns true only in a run started by a login submit for which
\* verify_user returned true, and username is then the submitted name; a
\* failed login, or any registration, leaves logged_in as it was; a Logout
\* click sets logged_in to false and the run that follows shows the login
\* page.
C12_SessionGating ==
    /\ [](page = "dashboard" => LoggedIn)
    /\ [][(~LoggedIn /\ LoggedIn') =>
            /\ event'.kind = "login"
            /\ verify_user(users, event'.username, event'.password)
            /\ session'["username"] = event'.username]_vars
    /\ [][(\/ event'.kind = "register"
           \/ /\ event'.kind = "login"
              /\ ~verify_user(users, event'.username, event'.password))
            => (LoggedIn' <=> LoggedIn)]_vars
    /\ [][event'.kind = "logout" => (~LoggedIn' /\ pc' = "rerun")]_vars
    /\ [][(pc = "rerun" /\ ~LoggedIn) => (event'.kind = "rerun" /\ page' = "login")]_vars

\* alice has signed in, seen the dashboard, clicked Logout, and been shown the
\* login page again, where she submitted a wrong password
C12_Witness ==
    /\ pc = "idle" /\ page = "login"
    /\ "username" \in DOMAIN session /\ session["username"] = "alice"
    /\ ~LoggedIn
    /\ event.kind = "login" /\ event.username = "alice"
    /\ "alice" \in DOMAIN firstPw /\ event.password # firstPw["alice"]

-----------------------------------------------------------------------------
(* Claims about the pipeline *)

Handled == pc \in {"columns", "relationships", "done"}

\* handle_dataframe turned the textual column c0 into the temporal column c
\* with every cell that held a value parsed, and at least one such cell
CoercedToTemporal(c0, c) ==
    /\ c0.dtype = "object"
    /\ c.dtype \in {"datetime64", "period"}
    /\ \A r \in 1..len(c) : isnull(c.cells[r]) => isnull(c0.cells[r])
    /\ \E r \in 1..len(c) : ~isnull(c.cells[r])

\* C5: a column handle_dataframe has coerced to a temporal representation
\* (datetime64, or monthly periods for a 'month' column) is tagged datetime by
\* the detect_data_type call that follows in the same request.
C5_CoercedIsDatetime ==
    \A n \in 1..Len(tags) :
        CoercedToTemporal(column_of(input, columns[n]), column_of(coerced, columns[n]))
            => tags[n] = "datetime"

\* a textual column with a cell that holds a value and does not parse as a date
PartialMatch(column) ==
    /\ column.dtype = "object"
    /\ \E r \in 1..len(column) : ~isnull(column.cells[r]) /\ ~Parses(column.cells[r])

\* C6: handle_dataframe leaves a textual column with at least one unparseable
\* non-null cell as it was: same cells, still textual, no cell made null.
C6_PartialMatchUnchanged ==
    Handled =>
        \A c \in 1..Len(input) : PartialMatch(input[c]) => coerced[c] = input[c]

\* C7: handle_dataframe applied to its own result returns that result:
\* handle_dataframe(handle_dataframe(t)) = handle_dataframe(t).
C7_Idempotent ==
    (pc = "coerce" /\ calls = 2) => df = coerced

\* C10: create_visualization leaves the table as handle_dataframe produced it
\* (same columns, storage types and cells), whatever the column and tag, so
\* the later columns and the two other tabs read the coerced table.
C10_TableNotMutated ==
    Handled => df = coerced


\* C11: a create_visualization call that fails (the statistics row, the chart
\* of any tag branch, a column without rows or values, the datetime branch's
\* fallback, which nests at most one further call) is reported for its column
\* alone: the page is never aborted, the loop always has its next column to
\* work on and classifies and visualizes every column in table order, and the
\* Relationships and Summary Statistics tabs follow.
C11_GracefulDegradation ==
    /\ pc # "aborted"
    /\ pc \in {"read", "columns", "relationships", "done"}
    /\ (pc = "columns" /\ idx =< Len(columns)) => has_column(df, columns[idx])
    /\ pc = "columns" => idx =< Len(columns) + 1 /\ Len(shown) = idx - 1
    /\ pc \in {"relationships", "done"} => Len(shown) = Len(columns)
    /\ Handled =>
        /\ columns = names(coerced)
        /\ Len(tags) = Len(shown)
        /\ \A n \in 1..Len(shown) :
            /\ tags[n] = detect_data_type(coerced[n])
            /\ shown[n].outcome \in {"ok", "error"}
            /\ shown[n].fallbacks =< 1

C11_Witness ==
    /\ pc = "done"
    /\ Len(shown) = 2
    /\ shown[1].outcome = "error" /\ shown[1].fallbacks = 1
    /\ shown[2].outcome = "ok"
    /\ tags = <<"datetime", "text">>

====
